---- MODULE Spec2Model ----
(***************************************************************************)
(* Task-management scaffold: the Mongoose task store (tasks/data.ts,       *)
(* database/index.ts), the service layer above it (tasks/services.ts) and  *)
(* the React Query hooks of the frontend (hooks/useTasks.ts, lib/api.ts).  *)
(*                                                                         *)
(* Strings are run-length encoded: a string is a sequence of runs          *)
(* [c |-> text, n |-> repetitions >= 1], the text a whitespace character   *)
(* or a chunk without whitespace, so that titles of 200 and 201 characters *)
(* are ordinary values.                                                    *)
(***************************************************************************)
EXTENDS Integers, Sequences, FiniteSets, TLC

\* ---------------------------------------------------------------- bounds
\* ObjectIds the storage engine hands out before the model stops creating.
MaxId == 2
\* Milliseconds the clock may advance.
MaxTime == 1

\* ------------------------------------------------------ program constants
\* minlength / maxlength of the schema's title path.
MinTitleLength == 1
MaxTitleLength == 200
\* Length of an ObjectId's hexadecimal string.
ObjectIdHexLength == 24

\* ---------------------------------------------------------------- strings
Run(c, n) == [c |-> c, n |-> n]

RECURSIVE StrLen(_)
StrLen(s) == IF s = <<>> THEN 0 ELSE Len(Head(s).c) * Head(s).n + StrLen(Tail(s))

IsWhitespace(c) == c \in {" ", "\t"}

RECURSIVE TrimStart(_)
TrimStart(s) ==
    IF s = <<>> THEN <<>>
    ELSE IF IsWhitespace(Head(s).c) THEN TrimStart(Tail(s)) ELSE s

RECURSIVE TrimEnd(_)
TrimEnd(s) ==
    IF s = <<>> THEN <<>>
    ELSE IF IsWhitespace(s[Len(s)].c) THEN TrimEnd(SubSeq(s, 1, Len(s) - 1)) ELSE s

\* String.prototype.trim, as the schema's trim setter and the hints use it.
Trim(s) == TrimEnd(TrimStart(s))

\* The titles callers submit: "", "   ", "  Buy milk  ", a title of 200
\* characters padded to 202, and a title of 201 characters.
EmptyTitle == <<>>
BlankTitle == <<Run(" ", 3)>>
PaddedTitle == <<Run(" ", 2), Run("Buy", 1), Run(" ", 1), Run("milk", 1), Run(" ", 2)>>
LongestTitle == <<Run(" ", 1), Run("a", MaxTitleLength), Run(" ", 1)>>
TooLongTitle == <<Run("a", MaxTitleLength + 1)>>
TitleInputs == {EmptyTitle, BlankTitle, PaddedTitle, LongestTitle, TooLongTitle}

\* ------------------------------------------------------------ identifiers
HexDigits == {"0", "1", "2", "3", "4", "5", "6", "7", "8", "9",
              "a", "b", "c", "d", "e", "f"}
DigitOf(k) == CASE k = 0 -> "0" [] k = 1 -> "1" [] k = 2 -> "2" [] k = 3 -> "3"
                [] k = 4 -> "4" [] k = 5 -> "5" [] k = 6 -> "6" [] k = 7 -> "7"
                [] k = 8 -> "8" [] OTHER -> "9"

\* ObjectId.toString(): the k-th identifier as 24 hexadecimal characters.
ToHexString(k) == <<Run("0", ObjectIdHexLength - 1), Run(DigitOf(k), 1)>>

\* The identifier a hexadecimal string denotes (0 when it denotes none the
\* model hands out).
FromHexString(s) ==
    IF \E k \in 1..9 : ToHexString(k) = s
    THEN CHOOSE k \in 1..9 : ToHexString(k) = s
    ELSE 0

NotAnId == <<Run("not-an-id", 1)>>

\* Types.ObjectId.isValid on a string: 24 hexadecimal characters. (Releases
\* of the driver's bson before 6 also take any string of 12 characters; no
\* such string is among the ids of this model.)
ObjectIdIsValid(s) ==
    /\ StrLen(s) = ObjectIdHexLength
    /\ \A i \in 1..Len(s) : s[i].c \in HexDigits

IdInputs == {ToHexString(k) : k \in 1..MaxId} \cup {NotAnId}

\* ------------------------------------------------------------------ state
VARIABLES
    tasks,      \* the tasks collection: ObjectId -> document
    nextId,     \* the next ObjectId the driver generates
    now,        \* Date.now(), in milliseconds
    last,       \* the call of the last step (a service call, an HTTP exchange,
                \* a schema's parse) and its outcome, if the step was one
    env,        \* process.env.NODE_ENV of the API process
    cache,      \* the data of the query ['tasks', 'list'] in the QueryClient
    fetching,   \* whether a fetch of that query is in flight
    mut,        \* the latest mutation of the hooks; `invalidated` tells whether
                \* it has called queryClient.invalidateQueries on the list,
                \* `attempts` how often its mutationFn has been called
    ui,         \* the state of the components: one TaskItem (of the task
                \* `id`) and the TaskForm, and the last notification shown
    cli         \* a run of the CLI (bagel.js): where main() is, what its
                \* steps returned, and the steps it has run

vars == <<tasks, nextId, now, last, env, cache, fetching, mut, ui, cli>>
server == <<tasks, nextId, now, last, env>>
client == <<cache, fetching, mut, ui>>

Statuses == {"open", "done"}

\* The values of NODE_ENV: the three conventional ones, and not set at all.
NodeEnvUnset == "undefined"
NodeEnvs == {"production", "development", "test", NodeEnvUnset}
NoTask == [none |-> TRUE]
NoCall == [op |-> "none"]

\* ----------------------------------------------------------- task schema
\* The schema's validators on title, after the trim setter ran.
TitleError(t) ==
    IF StrLen(t) = 0 THEN "Title is required"
    ELSE IF StrLen(t) < MinTitleLength THEN "Title cannot be empty"
    ELSE IF StrLen(t) > MaxTitleLength THEN "Title cannot exceed 200 characters"
    ELSE ""

StatusError(s) ==
    IF s \in Statuses THEN "" ELSE "Status must be either open or done"

\* new Task(data) with timestamps: true, at time t.
NewTask(id, title, t) ==
    [_id |-> id, title |-> Trim(title), status |-> "open",
     createdAt |-> t, updatedAt |-> t]

Ok(v) == [ok |-> TRUE, val |-> v, name |-> "", message |-> ""]
Throw(name, message) == [ok |-> FALSE, val |-> NoTask, name |-> name, message |-> message]

\* ------------------------------------------------------------ call inputs
Absent == [absent |-> TRUE]
Given(v) == [absent |-> FALSE, v |-> v]

\* CreateTaskInput: {title}.
CreateInputs == {[title |-> t] : t \in TitleInputs}

\* UpdateTaskInput: {title?, status?}; "archived" stands for any string that
\* is no status.
StatusInputs == {"open", "done", "archived"}
Updates(title, status) == [title |-> title, status |-> status]
UpdateInputs ==
    {Updates(Absent, Absent),
     Updates(Given(BlankTitle), Absent),
     Updates(Given(PaddedTitle), Absent),
     Updates(Given(PaddedTitle), Given("done"))}
    \cup {Updates(Absent, Given(s)) : s \in StatusInputs}

Call(op, arg, res) == [op |-> op, arg |-> arg, res |-> res]

\* -------------------------------------------------- TaskData (tasks/data.ts)
InvalidId == Throw("Error", "Invalid task ID format")

\* A validateObjectId that lets every id through.
validateObjectIdAny(id) == Ok(NoTask)

\* validateObjectId: the error it throws, or Ok.
validateObjectId(id) ==
    IF ~ObjectIdIsValid(id) THEN InvalidId ELSE Ok(NoTask)

\* Task.findById / findByIdAndUpdate / findByIdAndDelete look the document up
\* by the ObjectId the string denotes.
Lookup(coll, id) ==
    IF FromHexString(id) \in DOMAIN coll THEN coll[FromHexString(id)] ELSE NoTask

\* ApplyUpdate under a schema without timestamps: updatedAt is not refreshed.
ApplyUpdateNoTimestamp(doc, updates, t) ==
    [doc EXCEPT
        !.title = IF updates.title = Absent THEN @ ELSE Trim(updates.title.v),
        !.status = IF updates.status = Absent THEN @ ELSE updates.status.v]

\* The update document Mongoose sends for `updates` at time t: the provided
\* paths, cast by the schema (title trimmed), and updatedAt.
ApplyUpdate(doc, updates, t) ==
    [doc EXCEPT
        !.title = IF updates.title = Absent THEN @ ELSE Trim(updates.title.v),
        !.status = IF updates.status = Absent THEN @ ELSE updates.status.v,
        !.updatedAt = t]

\* runValidators: false - nothing is validated.
UpdateErrorNoValidators(updates) == ""

\* runValidators: true - the first validation failure of the provided paths.
UpdateError(updates) ==
    IF updates.title # Absent /\ TitleError(Trim(updates.title.v)) # ""
    THEN TitleError(Trim(updates.title.v))
    ELSE IF updates.status # Absent /\ StatusError(updates.status.v) # ""
    THEN StatusError(updates.status.v)
    ELSE ""

\* Task.find({}).sort({createdAt: -1}): every order of the documents that is
\* newest first; documents created in the same millisecond come in an order
\* the storage engine chooses.
RECURSIVE Orders(_)
Orders(ids) ==
    IF ids = {} THEN {<<>>}
    ELSE UNION {{<<i>> \o rest : rest \in Orders(ids \ {i})} : i \in ids}

\* findAll with sort({createdAt: 1}): oldest first.
findAllOldestFirst(coll) ==
    {[k \in 1..Len(o) |-> coll[o[k]]] :
        o \in {p \in Orders(DOMAIN coll) :
                 \A k \in 1..(Len(p) - 1) :
                    coll[p[k]].createdAt <= coll[p[k + 1]].createdAt}}

findAll(coll) ==
    {[k \in 1..Len(o) |-> coll[o[k]]] :
        o \in {p \in Orders(DOMAIN coll) :
                 \A k \in 1..(Len(p) - 1) :
                    coll[p[k]].createdAt >= coll[p[k + 1]].createdAt}}

\* getStats with a {$match: {status: 'open'}} stage before the $group.
getStatsOpenOnly(coll) ==
    {[status |-> s, count |-> Cardinality({i \in DOMAIN coll : coll[i].status = s})] :
        s \in {coll[i].status : i \in DOMAIN coll} \cap {"open"}}

\* Task.aggregate([$group by status with $sum 1, $project]): one entry per
\* status present; the entries' order is the engine's, so they are a set.
getStats(coll) ==
    {[status |-> s, count |-> Cardinality({i \in DOMAIN coll : coll[i].status = s})] :
        s \in {coll[i].status : i \in DOMAIN coll}}

\* Task.countDocuments().
count(coll) == Cardinality(DOMAIN coll)

\* The result of create(data) at time t, given the ObjectId the driver made.
createResult(id, data, t) ==
    IF TitleError(Trim(data.title)) # ""
    THEN Throw("ValidationError", TitleError(Trim(data.title)))
    ELSE Ok(NewTask(id, data.title, t))

\* The result of updateById(id, updates) at time t.
updateByIdResult(coll, id, updates, t) ==
    IF ~validateObjectId(id).ok THEN validateObjectId(id)
    ELSE IF UpdateError(updates) # "" THEN Throw("ValidationError", UpdateError(updates))
    ELSE IF Lookup(coll, id) = NoTask THEN Ok(NoTask)
    ELSE Ok(ApplyUpdate(Lookup(coll, id), updates, t))

\* The result of findById(id) and of deleteById(id): the document, or null.
findByIdResult(coll, id) ==
    IF ~validateObjectId(id).ok THEN validateObjectId(id) ELSE Ok(Lookup(coll, id))

Without(coll, k) == [i \in DOMAIN coll \ {k} |-> coll[i]]

\* ------------------------------------------ TaskServices (tasks/services.ts)
NotImplemented(what) ==
    Throw("Error", "Not implemented yet - you need to implement " \o what)

\* formatTaskResponse: the wire representation of a document.
formatTaskResponse(task) ==
    [id |-> ToHexString(task._id),
     title |-> task.title,
     status |-> task.status,
     createdAt |-> [iso |-> task.createdAt],
     updatedAt |-> [iso |-> task.updatedAt]]

\* getAllTasks(): the formatted lists findAll may return.
getAllTasks(coll) ==
    {[k \in 1..Len(l) |-> formatTaskResponse(l[k])] : l \in findAll(coll)}

createTask(data) == NotImplemented("task creation in services!")
getTaskById(id) == NotImplemented("get task by ID in services!")
updateTask(id, updates) == NotImplemented("task updates in services!")
deleteTask(id) == NotImplemented("task deletion in services!")

\* --------------------------------------- request schemas (types/index.ts)
\* An Error object: its name, its message, the `code` a MongoServerError
\* carries (0: none) and the `issues` a ZodError carries.
ErrorOf(name, message) == [name |-> name, message |-> message, code |-> 0, issues |-> <<>>]
NoError == ErrorOf("", "")

ZodIssue(path, message) == [path |-> path, message |-> message]

RECURSIVE JoinMessages(_)
JoinMessages(issues) ==
    IF issues = <<>> THEN ""
    ELSE Head(issues).message \o ";" \o JoinMessages(Tail(issues))

\* new ZodError(issues): its message is the issues, serialized.
ZodError(issues) ==
    [name |-> "ZodError", message |-> JoinMessages(issues), code |-> 0, issues |-> issues]

Parsed(data) == [ok |-> TRUE, data |-> data, error |-> NoError]
ParseFailed(issues) == [ok |-> FALSE, data |-> NoTask, error |-> ZodError(issues)]

\* z.string().min(1, minMessage).max(200, ...).trim(): the checks run in the
\* order they are written, min and max on the string as it was received and
\* trim, which replaces the string by its trimmed form, after them.
ZodTitle(value, minMessage) ==
    [issues |->
        (IF StrLen(value) < MinTitleLength
         THEN <<ZodIssue("title", minMessage)>> ELSE <<>>)
        \o (IF StrLen(value) > MaxTitleLength
            THEN <<ZodIssue("title", "Title cannot exceed 200 characters")>> ELSE <<>>),
     data |-> Trim(value)]

\* TaskStatus = z.enum(['open', 'done']), optional.
ZodStatus(status) ==
    IF status # Absent /\ status.v \notin Statuses
    THEN <<ZodIssue("status", "Invalid enum value")>> ELSE <<>>

\* CreateTaskSchema.parse(body): body is a JSON object with the keys title
\* and status present or absent; unknown keys (status) are stripped.
CreateTaskSchema_parse(body) ==
    IF body.title = Absent THEN ParseFailed(<<ZodIssue("title", "Required")>>)
    ELSE IF ZodTitle(body.title.v, "Title is required").issues # <<>>
    THEN ParseFailed(ZodTitle(body.title.v, "Title is required").issues)
    ELSE Parsed([title |-> ZodTitle(body.title.v, "Title is required").data])

\* UpdateTaskSchema.parse(body).
UpdateTaskSchema_parse(body) ==
    LET t == IF body.title = Absent THEN [issues |-> <<>>, data |-> <<>>]
             ELSE ZodTitle(body.title.v, "Title cannot be empty")
    IN  IF t.issues \o ZodStatus(body.status) # <<>>
        THEN ParseFailed(t.issues \o ZodStatus(body.status))
        ELSE Parsed([title |-> IF body.title = Absent THEN Absent ELSE Given(t.data),
                     status |-> body.status])

\* TaskParamsSchema.parse({id}).
TaskParamsSchema_parse(id) ==
    IF ObjectIdIsValid(id) THEN Parsed([id |-> id])
    ELSE ParseFailed(<<ZodIssue("id", "Invalid task ID format")>>)

\* The JSON objects requests carry: {} and objects with a title, a status or
\* both.
BodyObjects ==
    UpdateInputs \cup {Updates(Given(t), Absent) : t \in TitleInputs}

\* ------------------------- the API (app.ts, tasks/index.ts, health/index.ts)
\* getTaskStats() and hasAnyTasks() of the service.
getTaskStats(coll) == getStats(coll)
hasAnyTasks(coll) == count(coll) > 0

\* A request body as it arrives: none, bytes that are no JSON, or a JSON
\* object.
NoBody == [empty |-> TRUE]
MalformedJson == [malformed |-> TRUE]
Json(obj) == [json |-> obj]
Bodies == {NoBody, MalformedJson} \cup {Json(obj) : obj \in BodyObjects}

\* A request: its method, the router its path is mounted on ("tasks" for
\* /api/tasks, "health" for /api/health, "other" for any other prefix) and
\* the path segments after the mount point.
Request(method, mount, rest, body) ==
    [method |-> method, mount |-> mount, rest |-> rest, body |-> body]
Methods == {"GET", "POST", "PATCH", "DELETE", "PUT", "OPTIONS"}
StatsSegment == <<Run("stats", 1)>>
SimpleSegment == <<Run("simple", 1)>>

\* What a handler does with a request: it answers (res.status(..).json(..))
\* or forwards an error (next(error)), or no route matches; `calls` are the
\* service methods it called.
ServiceCall(method, arg) == [method |-> method, arg |-> arg]
Respond(status, body, calls) ==
    [kind |-> "respond", status |-> status, body |-> body, error |-> NoError, calls |-> calls]
Forward(error, calls) ==
    [kind |-> "next", status |-> 0, body |-> NoBody, error |-> error, calls |-> calls]
NoMatch ==
    [kind |-> "unmatched", status |-> 0, body |-> NoBody, error |-> NoError, calls |-> <<>>]

\* The error a model's query rejects with while mongoose has no connection.
StoreUnavailable ==
    ErrorOf("MongooseError", "Operation buffering timed out after 10000ms")

\* express.json() on a body that is no JSON: next(error) with a SyntaxError.
BodyParseError == ErrorOf("SyntaxError", "Unexpected token in JSON")

\* router.get('/stats')
router_getStats(coll, connected) ==
    IF connected
    THEN Respond(200, [success |-> TRUE, data |-> getTaskStats(coll)],
                 <<ServiceCall("getTaskStats", NoTask)>>)
    ELSE Forward(StoreUnavailable, <<ServiceCall("getTaskStats", NoTask)>>)

\* router.get('/'), `list` being what getAllTasks() resolves with.
router_getAll(list, connected) ==
    IF connected
    THEN Respond(200, [success |-> TRUE, data |-> list],
                 <<ServiceCall("getAllTasks", NoTask)>>)
    ELSE Forward(StoreUnavailable, <<ServiceCall("getAllTasks", NoTask)>>)

\* router.post('/'), router.get('/:id'), router.patch('/:id') and
\* router.delete('/:id').
router_post(req) ==
    Respond(501, [success |-> FALSE,
                  error |-> "Not implemented yet - you need to implement task creation!"], <<>>)
router_getById(req) ==
    Respond(501, [success |-> FALSE,
                  error |-> "Not implemented yet - you need to implement get task by ID!"], <<>>)
router_patch(req) ==
    Respond(501, [success |-> FALSE,
                  error |-> "Not implemented yet - you need to implement task updates!"], <<>>)
router_delete(req) ==
    Respond(501, [success |-> FALSE,
                  error |-> "Not implemented yet - you need to implement task deletion!"], <<>>)

\* A tasks router with the routes of /:id registered before /stats.
taskRoutesIdFirst(req, coll, list, connected) ==
    IF req.method = "GET" /\ req.rest = <<>> THEN router_getAll(list, connected)
    ELSE IF req.method = "POST" /\ req.rest = <<>> THEN router_post(req)
    ELSE IF req.method = "GET" /\ Len(req.rest) = 1 THEN router_getById(req)
    ELSE IF req.method = "PATCH" /\ Len(req.rest) = 1 THEN router_patch(req)
    ELSE IF req.method = "DELETE" /\ Len(req.rest) = 1 THEN router_delete(req)
    ELSE IF req.method = "GET" /\ req.rest = <<StatsSegment>> THEN router_getStats(coll, connected)
    ELSE NoMatch

\* The tasks router: the first route, in the order they are registered,
\* whose method and path match.
taskRoutes(req, coll, list, connected) ==
    IF req.method = "GET" /\ req.rest = <<StatsSegment>> THEN router_getStats(coll, connected)
    ELSE IF req.method = "GET" /\ req.rest = <<>> THEN router_getAll(list, connected)
    ELSE IF req.method = "POST" /\ req.rest = <<>> THEN router_post(req)
    ELSE IF req.method = "GET" /\ Len(req.rest) = 1 THEN router_getById(req)
    ELSE IF req.method = "PATCH" /\ Len(req.rest) = 1 THEN router_patch(req)
    ELSE IF req.method = "DELETE" /\ Len(req.rest) = 1 THEN router_delete(req)
    ELSE NoMatch

\* A health check that takes a failed count for a failed database.
checkHealthByCount(coll, connected, counted, t) ==
    [status |-> IF connected /\ counted THEN "healthy" ELSE "unhealthy",
     timestamp |-> [iso |-> t],
     services |-> [database |-> IF connected /\ counted THEN "connected"
                                ELSE "disconnected",
                   api |-> "operational"],
     info |-> [tasksCount |-> IF counted /\ hasAnyTasks(coll) THEN 1 ELSE 0]]

\* HealthServices.checkHealth() at time t (uptime and memory left out);
\* `connected` is mongoose.connection.readyState === 1, `counted` whether
\* hasAnyTasks() resolves: its failure is caught and counts as no tasks.
checkHealth(coll, connected, counted, t) ==
    [status |-> IF connected THEN "healthy" ELSE "unhealthy",
     timestamp |-> [iso |-> t],
     services |-> [database |-> IF connected THEN "connected" ELSE "disconnected",
                   api |-> "operational"],
     info |-> [tasksCount |-> IF counted /\ hasAnyTasks(coll) THEN 1 ELSE 0]]

\* The health router: router.get('/') and router.get('/simple').
healthRoutes(req, coll, connected, counted, t) ==
    IF req.method = "GET" /\ req.rest = <<>>
    THEN LET health == checkHealth(coll, connected, counted, t)
         IN  Respond(IF health.status = "healthy" THEN 200 ELSE 503,
                     [success |-> health.status = "healthy", data |-> health], <<>>)
    ELSE IF req.method = "GET" /\ req.rest = <<SimpleSegment>>
    THEN Respond(200, [success |-> TRUE,
                       data |-> [status |-> "healthy", message |-> "API is running",
                                 timestamp |-> [iso |-> t]]], <<>>)
    ELSE NoMatch

\* app.use('*'): the 404 handler.
notFoundHandler ==
    Respond(404, [success |-> FALSE, error |-> "Endpoint not found"], <<>>)

\* The global error handler.
errorHandler(error, nodeEnv) ==
    IF error.name = "MongoServerError" /\ error.code = 11000
    THEN [status |-> 400, body |-> [success |-> FALSE, error |-> "Duplicate entry"]]
    ELSE IF error.name = "ValidationError"
    THEN [status |-> 400, body |-> [success |-> FALSE, error |-> "Validation failed",
                                    details |-> error.message]]
    ELSE IF error.name = "CastError"
    THEN [status |-> 400, body |-> [success |-> FALSE, error |-> "Invalid ID format"]]
    ELSE [status |-> 500,
          body |-> [success |-> FALSE,
                    error |-> IF nodeEnv = "production"
                              THEN "Internal server error" ELSE error.message]]

\* The response to a request and how it came about: `via` names the
\* middleware that answered, `error` the error forwarded to the error
\* handler (NoError when none was).
Exchange(status, body, via, error, calls) ==
    [status |-> status, body |-> body, via |-> via, error |-> error, calls |-> calls]

Handled(error, nodeEnv, calls) ==
    Exchange(errorHandler(error, nodeEnv).status, errorHandler(error, nodeEnv).body,
             "errorHandler", error, calls)

\* The middleware chain of the app: cors (which answers an OPTIONS request
\* itself, 204 without a body), body parsing, the routers at their mount
\* points, the 404 handler, the error handler.
app(req, coll, list, connected, counted, nodeEnv, t) ==
    IF req.method = "OPTIONS" THEN Exchange(204, NoBody, "cors", NoError, <<>>)
    ELSE IF req.body = MalformedJson THEN Handled(BodyParseError, nodeEnv, <<>>)
    ELSE LET out == IF req.mount = "health" THEN healthRoutes(req, coll, connected, counted, t)
                    ELSE IF req.mount = "tasks" THEN taskRoutes(req, coll, list, connected)
                    ELSE NoMatch
         IN  IF out.kind = "respond"
             THEN Exchange(out.status, out.body, "route", NoError, out.calls)
             ELSE IF out.kind = "next" THEN Handled(out.error, nodeEnv, out.calls)
             ELSE Exchange(notFoundHandler.status, notFoundHandler.body, "notFound",
                           NoError, <<>>)

\* The errors handlers forward: a ZodError, the service's and the store's
\* errors, Mongoose's and the driver's errors, and an error of no known kind.
ZodErrorSample == ZodError(<<ZodIssue("title", "Expected string, received number")>>)
ErrorInputs ==
    {ZodErrorSample,
     ErrorOf("Error", "Task not found"),
     ErrorOf("Error", "Invalid task ID format"),
     ErrorOf("Error", "Title cannot be empty"),
     ErrorOf("ValidationError", "Task validation failed: title: Title is required"),
     ErrorOf("CastError", "Cast to ObjectId failed"),
     [ErrorOf("MongoServerError", "E11000 duplicate key error") EXCEPT !.code = 11000],
     [ErrorOf("MongoServerError", "not primary") EXCEPT !.code = 10107],
     ErrorOf("Error", "Generic error"),
     StoreUnavailable}

\* ------------------------------------------------- taskApi (lib/api.ts)
taskApi_createTask(input) ==
    Throw("Error", "createTask not implemented yet - you need to implement this!")
taskApi_updateTask(id, input) ==
    Throw("Error", "updateTask not implemented yet - you need to implement this!")
taskApi_deleteTask(id) ==
    Throw("Error", "deleteTask not implemented yet - you need to implement this!")

\* ------------------------------------------- mutation hooks (hooks/useTasks.ts)
\* The query's data: undefined until a fetch has resolved, then a list.
NoData == [defined |-> FALSE, list |-> <<>>]
Data(list) == [defined |-> TRUE, list |-> list]
NoMutation ==
    [kind |-> "none", vars |-> [none |-> TRUE], status |-> "idle", error |-> "",
     snapshot |-> NoData, invalidated |-> FALSE, attempts |-> 0]

\* The options each hook gives useMutation: its mutationFn, and what its
\* onMutate and onError callbacks make of the cached list (none is given, so
\* the list is left as it is).
\* The provisional task an optimistic create puts in front of the list.
Provisional(input) ==
    [id |-> <<Run("temp-id", 1)>>, title |-> input.title, status |-> "open",
     createdAt |-> [iso |-> 0], updatedAt |-> [iso |-> 0]]

\* An onMutate that adds the provisional task, in a hook whose onError still
\* restores nothing.
useCreateTask_onMutateNoRollback(data, v) ==
    Data(<<Provisional(v.input)>> \o data.list)

useCreateTask_mutationFn(v) == taskApi_createTask(v.input)
useCreateTask_onMutate(data, v) == data
useCreateTask_onError(data, snapshot) == data

useUpdateTask_mutationFn(v) == taskApi_updateTask(v.id, v.updates)
useUpdateTask_onMutate(data, v) == data
useUpdateTask_onError(data, snapshot) == data

useDeleteTask_mutationFn(v) == taskApi_deleteTask(v.id)
useDeleteTask_onMutate(data, v) == data
useDeleteTask_onError(data, snapshot) == data

\* defaultOptions.mutations.retry of the QueryClient the app creates.
DefaultMutationRetry == 0

\* A retry: 3 among the options of the hooks.
useMutation_retryThrice(kind) == 3

\* The retry option of a hook's useMutation: none of the hooks gives one, so
\* it is the client's default.
useMutation_retry(kind) == DefaultMutationRetry

mutationFn(m) ==
    CASE m.kind = "create" -> useCreateTask_mutationFn(m.vars)
      [] m.kind = "update" -> useUpdateTask_mutationFn(m.vars)
      [] OTHER -> useDeleteTask_mutationFn(m.vars)

onMutate(kind, data, v) ==
    CASE kind = "create" -> useCreateTask_onMutate(data, v)
      [] kind = "update" -> useUpdateTask_onMutate(data, v)
      [] OTHER -> useDeleteTask_onMutate(data, v)

onError(m, data) ==
    CASE m.kind = "create" -> useCreateTask_onError(data, m.snapshot)
      [] m.kind = "update" -> useUpdateTask_onError(data, m.snapshot)
      [] OTHER -> useDeleteTask_onError(data, m.snapshot)

\* The updates the hooks' callers send: a status toggle or a new title.
ClientUpdates ==
    {[title |-> Absent, status |-> Given("done")],
     [title |-> Absent, status |-> Given("open")],
     [title |-> Given(Trim(PaddedTitle)), status |-> Absent]}

CachedIds == {cache.list[k].id : k \in 1..Len(cache.list)}

\* ------------------------------------------------------------- components
\* The state of the TaskItem of task `id` (useState isEditing, editTitle;
\* useDisclosure deleteOpened), the handler of it that awaits a mutation and
\* the task prop that handler closed over, the title field of the TaskForm,
\* and the message of the last notification.
NoClosure == [title |-> EmptyTitle, status |-> "open"]
Closure(task) == [title |-> task.title, status |-> task.status]
NoUi ==
    [id |-> NotAnId, mounted |-> FALSE, isEditing |-> FALSE,
     editTitle |-> EmptyTitle, deleteOpened |-> FALSE, awaiting |-> "none",
     closure |-> NoClosure, formTitle |-> EmptyTitle, notice |-> ""]

\* The task prop of the TaskItem: the entry of the list TaskList maps over.
TaskProp(data, id) ==
    LET k == CHOOSE k \in 1..Len(data.list) : data.list[k].id = id
    IN data.list[k]

TitleEmptyNotice == "Title cannot be empty"
UpdateNotImplementedNotice ==
    "You need to implement updateTask in api.ts and add optimistic updates!"
DeleteNotImplementedNotice ==
    "You need to implement deleteTask in api.ts and add optimistic updates!"
SubmitNotImplementedNotice ==
    "You need to implement form submission! Check the TODO hints above."
UpdatedNotice == "Task updated successfully"
DeletedNotice == "Task deleted successfully"
MarkedNotice(status) ==
    IF status = "open" THEN "Task marked as done" ELSE "Task marked as open"

NoDispatch == [dispatch |-> FALSE, vars |-> [none |-> TRUE]]
Dispatch(v) == [dispatch |-> TRUE, vars |-> v]

\* A save that sends whatever the field holds.
handleSaveEditAsTyped(item, task) ==
    [mutate |-> Dispatch([id |-> task.id,
                          updates |-> [title |-> Given(item.editTitle), status |-> Absent]]),
     isEditing |-> item.isEditing, notice |-> item.notice]

\* TaskItem.handleSaveEdit up to its await: what it dispatches, and what it
\* makes of isEditing and of the notification.
handleSaveEdit(item, task) ==
    LET trimmedTitle == Trim(item.editTitle) IN
    IF trimmedTitle = EmptyTitle
    THEN [mutate |-> NoDispatch, isEditing |-> item.isEditing, notice |-> TitleEmptyNotice]
    ELSE IF trimmedTitle = task.title
    THEN [mutate |-> NoDispatch, isEditing |-> FALSE, notice |-> item.notice]
    ELSE [mutate |-> Dispatch([id |-> task.id,
                               updates |-> [title |-> Given(trimmedTitle), status |-> Absent]]),
          isEditing |-> item.isEditing, notice |-> item.notice]

\* The rest of the handler that awaits the mutation, once mutateAsync's
\* promise has settled (fulfilled or rejected).
afterAwait(item, fulfilled) ==
    CASE item.awaiting = "toggle" ->
           [item EXCEPT !.awaiting = "none", !.closure = NoClosure,
                        !.notice = IF fulfilled THEN MarkedNotice(item.closure.status)
                                   ELSE UpdateNotImplementedNotice]
      [] item.awaiting = "saveEdit" ->
           IF fulfilled
           THEN [item EXCEPT !.awaiting = "none", !.closure = NoClosure,
                             !.isEditing = FALSE, !.notice = UpdatedNotice]
           ELSE [item EXCEPT !.awaiting = "none", !.closure = NoClosure,
                             !.editTitle = item.closure.title, !.isEditing = FALSE,
                             !.notice = UpdateNotImplementedNotice]
      [] item.awaiting = "delete" ->
           [item EXCEPT !.awaiting = "none", !.closure = NoClosure,
                        !.deleteOpened = FALSE,
                        !.notice = IF fulfilled THEN DeletedNotice
                                   ELSE DeleteNotImplementedNotice]
      [] OTHER -> item

\* ------------------------------------------------------- the CLI (bagel.js)
\* A run of main(): `pc` is the step it is at, `steps` the steps it has run,
\* `attempts` the fetches of checkHealth, `health` the outcome of its last
\* fetch.
FetchFailed == 0
NoCli ==
    [pc |-> "main", steps |-> <<>>, mongoStarted |-> FALSE, attempts |-> 0,
     health |-> FetchFailed, backendStarted |-> FALSE, exitCode |-> 0]

\* response.ok of fetch
ResponseOk(status) == status \in 200..299

\* maxRetries of checkHealth(url, maxRetries = 30, interval = 1000)
CheckHealthMaxRetries == 30

\* startMongoDB(): Docker if there is one and the container starts, else
\* Homebrew if there is one and the service starts (the fetch of the
\* mongodb:// URL in between always throws, fetch knowing no such scheme).
startMongoDB(hasDocker, dockerRuns, hasBrew, brewStarts) ==
    IF hasDocker /\ dockerRuns THEN TRUE
    ELSE IF hasBrew /\ brewStarts THEN TRUE
    ELSE FALSE

\* setupDependencies(): npm install where node_modules is missing; it throws
\* when an install fails.
setupDependencies(backendInstalled, frontendInstalled, npmInstalls) ==
    IF (~backendInstalled \/ ~frontendInstalled) /\ ~npmInstalls
    THEN Throw("Error", "Command failed with exit code 1")
    ELSE Ok(NoTask)

\* A main() that starts the frontend whatever startBackend() returned.
main_afterBackendAlways(backendStarted) == "startFrontend"

\* main(), case 'up', after startBackend(): the frontend is started if the
\* backend is ready, and nothing more is done if it is not.
main_afterBackend(backendStarted) ==
    IF backendStarted THEN "startFrontend" ELSE "done"

\* --------------------------------------------- sample data (mongo-init.js)
MsPerDay == 86400000
SeedTime == 2 * MsPerDay
SeedTitle1 ==
    <<Run("Complete", 1), Run(" ", 1), Run("the", 1), Run(" ", 1),
      Run("full-stack", 1), Run(" ", 1), Run("home", 1), Run(" ", 1), Run("test", 1)>>
SeedTitle2 ==
    <<Run("Review", 1), Run(" ", 1), Run("React", 1), Run(" ", 1),
      Run("Query", 1), Run(" ", 1), Run("documentation", 1)>>
SeedTitle3 ==
    <<Run("Set", 1), Run(" ", 1), Run("up", 1), Run(" ", 1), Run("MongoDB", 1),
      Run(" ", 1), Run("with", 1), Run(" ", 1), Run("proper", 1), Run(" ", 1),
      Run("indexing", 1)>>
SeedTasks ==
    (1 :> [_id |-> 1, title |-> SeedTitle1, status |-> "open",
           createdAt |-> SeedTime, updatedAt |-> SeedTime])
    @@ (2 :> [_id |-> 2, title |-> SeedTitle2, status |-> "done",
              createdAt |-> SeedTime - MsPerDay, updatedAt |-> SeedTime - MsPerDay])
    @@ (3 :> [_id |-> 3, title |-> SeedTitle3, status |-> "open",
              createdAt |-> SeedTime - 2 * MsPerDay,
              updatedAt |-> SeedTime - 2 * MsPerDay])
SeedIds == {ToHexString(k) : k \in DOMAIN SeedTasks}

\* =================================================================== actions
\* An empty collection, and a client that has fetched nothing.
Init ==
    /\ tasks = [i \in {} |-> NoTask]
    /\ nextId = 1
    /\ now = 0
    /\ last = NoCall
    /\ env = NodeEnvUnset
    /\ cache = NoData
    /\ fetching = FALSE
    /\ mut = NoMutation
    /\ ui = NoUi
    /\ cli = NoCli

\* The collection as mongo-init.js seeds it.
InitSeeded ==
    /\ tasks = SeedTasks
    /\ nextId = Cardinality(DOMAIN SeedTasks) + 1
    /\ now = SeedTime
    /\ last = NoCall
    /\ env = NodeEnvUnset
    /\ cache = NoData
    /\ fetching = FALSE
    /\ mut = NoMutation
    /\ ui = NoUi
    /\ cli = NoCli

\* The clock advances by a millisecond.
Tick ==
    /\ now < MaxTime
    /\ now' = now + 1
    /\ last' = NoCall
    /\ UNCHANGED <<tasks, nextId>>
    /\ UNCHANGED env
    /\ UNCHANGED <<client, cli>>

\* TaskData.create(data)
DataCreate(data) ==
    LET res == createResult(nextId, data, now) IN
    /\ nextId <= MaxId
    /\ IF res.ok
       THEN /\ tasks' = tasks @@ (nextId :> res.val)
            /\ nextId' = nextId + 1
       ELSE UNCHANGED <<tasks, nextId>>
    /\ last' = NoCall
    /\ UNCHANGED now
    /\ UNCHANGED env
    /\ UNCHANGED <<client, cli>>

\* TaskData.findById(id): a read, whose result is findByIdResult(tasks, id).
DataFindById(id) ==
    /\ last' = NoCall
    /\ UNCHANGED <<tasks, nextId, now>>
    /\ UNCHANGED env
    /\ UNCHANGED <<client, cli>>

\* TaskData.updateById(id, updates)
DataUpdateById(id, updates) ==
    LET res == updateByIdResult(tasks, id, updates, now) IN
    /\ tasks' = IF res.ok /\ res.val # NoTask
                THEN [tasks EXCEPT ![res.val._id] = res.val]
                ELSE tasks
    /\ last' = NoCall
    /\ UNCHANGED <<nextId, now>>
    /\ UNCHANGED env
    /\ UNCHANGED <<client, cli>>

\* TaskData.deleteById(id)
DataDeleteById(id) ==
    LET res == findByIdResult(tasks, id) IN
    /\ tasks' = IF res.ok /\ res.val # NoTask
                THEN Without(tasks, res.val._id)
                ELSE tasks
    /\ last' = NoCall
    /\ UNCHANGED <<nextId, now>>
    /\ UNCHANGED env
    /\ UNCHANGED <<client, cli>>

\* TaskServices.createTask(data)
ServiceCreateTask(data) ==
    /\ last' = Call("createTask", data, createTask(data))
    /\ UNCHANGED <<tasks, nextId, now>>
    /\ UNCHANGED env
    /\ UNCHANGED <<client, cli>>

\* TaskServices.getTaskById(id)
ServiceGetTaskById(id) ==
    /\ last' = Call("getTaskById", [id |-> id], getTaskById(id))
    /\ UNCHANGED <<tasks, nextId, now>>
    /\ UNCHANGED env
    /\ UNCHANGED <<client, cli>>

\* TaskServices.updateTask(id, updates)
ServiceUpdateTask(id, updates) ==
    /\ last' = Call("updateTask", [id |-> id, updates |-> updates], updateTask(id, updates))
    /\ UNCHANGED <<tasks, nextId, now>>
    /\ UNCHANGED env
    /\ UNCHANGED <<client, cli>>

\* TaskServices.deleteTask(id)
ServiceDeleteTask(id) ==
    /\ last' = Call("deleteTask", [id |-> id], deleteTask(id))
    /\ UNCHANGED <<tasks, nextId, now>>
    /\ UNCHANGED env
    /\ UNCHANGED <<client, cli>>

\* Whether the count of the health check resolves: never without a
\* connection; with one, the query may still fail.
CountOutcomes(req, connected) ==
    IF ~connected THEN {FALSE}
    ELSE IF req.mount = "health" /\ req.method = "GET" /\ req.rest = <<>> THEN BOOLEAN
    ELSE {TRUE}

\* The app answers a request; `connected` tells whether mongoose has its
\* connection at that moment.
ApiRequest(req, connected) ==
    /\ \E list \in getAllTasks(tasks), counted \in CountOutcomes(req, connected) :
          last' = [op |-> "request", arg |-> req, db |-> connected, counted |-> counted,
                   res |-> app(req, tasks, list, connected, counted, env, now)]
    /\ UNCHANGED <<tasks, nextId, now>>
    /\ UNCHANGED env
    /\ UNCHANGED <<client, cli>>

\* A route forwards an error with next(error), as the route /test-error/:type
\* of the error handler's tests does.
ForwardError(error) ==
    /\ last' = [op |-> "request",
                arg |-> Request("GET", "test-error", <<>>, NoBody), db |-> TRUE,
                res |-> Handled(error, env, <<>>)]
    /\ UNCHANGED <<tasks, nextId, now>>
    /\ UNCHANGED env
    /\ UNCHANGED <<client, cli>>

\* CreateTaskSchema.parse(body)
ParseCreate(body) ==
    /\ last' = Call("CreateTaskSchema.parse", body, CreateTaskSchema_parse(body))
    /\ UNCHANGED <<tasks, nextId, now>>
    /\ UNCHANGED env
    /\ UNCHANGED <<client, cli>>

\* UpdateTaskSchema.parse(body)
ParseUpdate(body) ==
    /\ last' = Call("UpdateTaskSchema.parse", body, UpdateTaskSchema_parse(body))
    /\ UNCHANGED <<tasks, nextId, now>>
    /\ UNCHANGED env
    /\ UNCHANGED <<client, cli>>

\* TaskParamsSchema.parse({id})
ParseParams(id) ==
    /\ last' = Call("TaskParamsSchema.parse", [id |-> id], TaskParamsSchema_parse(id))
    /\ UNCHANGED <<tasks, nextId, now>>
    /\ UNCHANGED env
    /\ UNCHANGED <<client, cli>>

\* ------------------------------------------------------------ client steps
\* A mutation whose promise has settled resolves before any other task of
\* the client's event loop runs.
MutationPending == mut.status = "pending"

\* useTasks: the query starts a fetch (mount, refetch, invalidation).
QueryFetch ==
    /\ ~MutationPending
    /\ ~fetching
    /\ fetching' = TRUE
    /\ UNCHANGED <<cache, mut, ui>>
    /\ UNCHANGED <<server, cli>>

\* taskApi.getTasks resolves with the list GET /tasks answers.
QueryResolve ==
    /\ ~MutationPending
    /\ fetching
    /\ \E list \in getAllTasks(tasks) : cache' = Data(list)
    /\ fetching' = FALSE
    /\ UNCHANGED <<mut, ui>>
    /\ UNCHANGED <<server, cli>>

\* taskApi.getTasks rejects (the request failed): the data stays.
QueryReject ==
    /\ ~MutationPending
    /\ fetching
    /\ fetching' = FALSE
    /\ UNCHANGED <<cache, mut, ui>>
    /\ UNCHANGED <<server, cli>>

\* mutate(variables) of one of the hooks: the mutation is pending, onMutate
\* has run, and the mutationFn has been called. What becomes of the caller's
\* own state is the caller's.
Mutate(kind, v) ==
    /\ ~MutationPending
    /\ mut' = [kind |-> kind, vars |-> v, status |-> "pending", error |-> "",
               snapshot |-> cache, invalidated |-> FALSE, attempts |-> 1]
    /\ cache' = onMutate(kind, cache, v)
    /\ UNCHANGED fetching
    /\ UNCHANGED <<server, cli>>

CreateMutate(input) ==
    /\ Mutate("create", [input |-> input])
    /\ UNCHANGED ui
UpdateMutate(id, updates) ==
    /\ Mutate("update", [id |-> id, updates |-> updates])
    /\ UNCHANGED ui
DeleteMutate(id) ==
    /\ Mutate("delete", [id |-> id])
    /\ UNCHANGED ui

\* The mutationFn's promise settles: onSuccess invalidates the list query
\* (a refetch starts); a rejection calls the mutationFn again while retries
\* are left, and otherwise runs onError and is the mutation's error. The
\* promise mutateAsync gave the component settles with it, and the handler
\* that awaits it runs on.
MutationSettle ==
    LET res == mutationFn(mut) IN
    /\ MutationPending
    /\ IF res.ok
       THEN /\ mut' = [mut EXCEPT !.status = "success", !.invalidated = TRUE]
            /\ fetching' = TRUE
            /\ ui' = afterAwait(ui, TRUE)
            /\ UNCHANGED cache
       ELSE IF mut.attempts <= useMutation_retry(mut.kind)
       THEN /\ mut' = [mut EXCEPT !.attempts = @ + 1]
            /\ UNCHANGED <<cache, fetching, ui>>
       ELSE /\ mut' = [mut EXCEPT !.status = "error", !.error = res.message]
            /\ cache' = onError(mut, cache)
            /\ ui' = afterAwait(ui, FALSE)
            /\ UNCHANGED fetching
    /\ UNCHANGED <<server, cli>>

\* TaskList renders a TaskItem for each task of the list: the item of a task
\* that has come into the list mounts with its initial state, the item of a
\* task that has left it unmounts.
TaskList_render ==
    /\ ui.mounted # (ui.id \in CachedIds)
    /\ ui' = IF ui.id \in CachedIds
             THEN [ui EXCEPT !.mounted = TRUE, !.isEditing = FALSE,
                             !.editTitle = TaskProp(cache, ui.id).title,
                             !.deleteOpened = FALSE]
             ELSE [ui EXCEPT !.mounted = FALSE, !.isEditing = FALSE,
                             !.editTitle = EmptyTitle, !.deleteOpened = FALSE]
    /\ UNCHANGED <<cache, fetching, mut>>
    /\ UNCHANGED <<server, cli>>

\* The TaskItem is on the screen, rendered from the list as it is now.
Rendered == ui.mounted /\ ui.id \in CachedIds

\* Double click on the title, or the edit icon: setIsEditing(true).
TaskItem_setIsEditing ==
    /\ Rendered
    /\ ~ui.isEditing
    /\ ui' = [ui EXCEPT !.isEditing = TRUE]
    /\ UNCHANGED <<cache, fetching, mut>>
    /\ UNCHANGED <<server, cli>>

\* Typing in the edit field: setEditTitle(e.target.value).
TaskItem_setEditTitle(title) ==
    /\ Rendered
    /\ ui.isEditing
    /\ ui' = [ui EXCEPT !.editTitle = title]
    /\ UNCHANGED <<cache, fetching, mut>>
    /\ UNCHANGED <<server, cli>>

\* The Save button, or Enter in the edit field.
TaskItem_handleSaveEdit ==
    LET task == TaskProp(cache, ui.id)
        out == handleSaveEdit(ui, task)
    IN /\ Rendered
       /\ ui.isEditing
       /\ IF out.mutate.dispatch
          THEN /\ Mutate("update", out.mutate.vars)
               /\ ui' = [ui EXCEPT !.isEditing = out.isEditing, !.notice = out.notice,
                                   !.awaiting = "saveEdit", !.closure = Closure(task)]
          ELSE /\ ui' = [ui EXCEPT !.isEditing = out.isEditing, !.notice = out.notice]
               /\ UNCHANGED <<cache, fetching, mut>>
               /\ UNCHANGED <<server, cli>>

\* The Cancel button, or Escape in the edit field.
TaskItem_handleCancelEdit ==
    /\ Rendered
    /\ ui.isEditing
    /\ ui' = [ui EXCEPT !.isEditing = FALSE, !.editTitle = TaskProp(cache, ui.id).title]
    /\ UNCHANGED <<cache, fetching, mut>>
    /\ UNCHANGED <<server, cli>>

\* The checkbox (disabled while the update mutation is pending).
TaskItem_handleToggleStatus ==
    LET task == TaskProp(cache, ui.id)
        status == IF task.status = "open" THEN "done" ELSE "open"
    IN /\ Rendered
       /\ Mutate("update", [id |-> task.id,
                             updates |-> [title |-> Absent, status |-> Given(status)]])
       /\ ui' = [ui EXCEPT !.awaiting = "toggle", !.closure = Closure(task)]

\* The delete icon opens the confirmation modal; its Cancel closes it.
TaskItem_openDelete ==
    /\ Rendered
    /\ ~ui.isEditing
    /\ ~ui.deleteOpened
    /\ ui' = [ui EXCEPT !.deleteOpened = TRUE]
    /\ UNCHANGED <<cache, fetching, mut>>
    /\ UNCHANGED <<server, cli>>

TaskItem_closeDelete ==
    /\ Rendered
    /\ ui.deleteOpened
    /\ ui' = [ui EXCEPT !.deleteOpened = FALSE]
    /\ UNCHANGED <<cache, fetching, mut>>
    /\ UNCHANGED <<server, cli>>

\* A Delete button that takes the task out of the cached list itself.
TaskItem_handleDeleteFromCache ==
    /\ Rendered
    /\ ui.deleteOpened
    /\ cache' = Data(SelectSeq(cache.list, LAMBDA t : t.id # ui.id))
    /\ ui' = [ui EXCEPT !.deleteOpened = FALSE, !.notice = DeletedNotice]
    /\ UNCHANGED <<fetching, mut>>
    /\ UNCHANGED <<server, cli>>

\* The Delete button of the modal.
TaskItem_handleDelete ==
    LET task == TaskProp(cache, ui.id) IN
    /\ Rendered
    /\ ui.deleteOpened
    /\ Mutate("delete", [id |-> task.id])
    /\ ui' = [ui EXCEPT !.awaiting = "delete", !.closure = Closure(task)]

\* Typing in the form's title field.
TaskForm_setTitle(title) ==
    /\ ui' = [ui EXCEPT !.formTitle = title]
    /\ UNCHANGED <<cache, fetching, mut>>
    /\ UNCHANGED <<server, cli>>

\* The form's submit (its button is disabled while the trimmed title is
\* empty): a notification, and nothing else.
TaskForm_handleSubmit ==
    /\ Trim(ui.formTitle) # EmptyTitle
    /\ ui' = [ui EXCEPT !.notice = SubmitNotImplementedNotice]
    /\ UNCHANGED <<cache, fetching, mut>>
    /\ UNCHANGED <<server, cli>>

\* main(): process.argv picks the command; only `test up` starts services.
Cli_main(command, subcommand) ==
    /\ cli.pc = "main"
    /\ cli' = [cli EXCEPT !.pc = IF command = "test" /\ subcommand = "up"
                                 THEN "startMongoDB" ELSE "done"]
    /\ UNCHANGED <<server, client>>

Cli_startMongoDB(hasDocker, dockerRuns, hasBrew, brewStarts) ==
    /\ cli.pc = "startMongoDB"
    /\ cli' = [cli EXCEPT !.pc = "setupDependencies",
                          !.steps = Append(@, "startMongoDB"),
                          !.mongoStarted =
                              startMongoDB(hasDocker, dockerRuns, hasBrew, brewStarts)]
    /\ UNCHANGED <<server, client>>

\* setupDependencies(); what it throws main() catches, and exits with 1.
Cli_setupDependencies(backendInstalled, frontendInstalled, npmInstalls) ==
    LET res == setupDependencies(backendInstalled, frontendInstalled, npmInstalls) IN
    /\ cli.pc = "setupDependencies"
    /\ cli' = [cli EXCEPT !.pc = IF res.ok THEN "startBackend" ELSE "exited",
                          !.steps = Append(@, "setupDependencies"),
                          !.exitCode = IF res.ok THEN 0 ELSE 1]
    /\ UNCHANGED <<server, client>>

\* startBackend(): the server is spawned, and checkHealth starts polling.
Cli_startBackend ==
    /\ cli.pc = "startBackend"
    /\ cli' = [cli EXCEPT !.pc = "checkHealth", !.steps = Append(@, "startBackend")]
    /\ UNCHANGED <<server, client>>

\* One round of checkHealth's loop: the fetch of /api/health fails, or is
\* answered as the health route answers. startBackend() returns what
\* checkHealth returns, and main() goes on from there.
Cli_checkHealth(status) ==
    LET ok == status # FetchFailed /\ ResponseOk(status)
        i == cli.attempts + 1
    IN /\ cli.pc = "checkHealth"
       /\ cli.attempts < CheckHealthMaxRetries
       /\ cli' = [cli EXCEPT !.attempts = i,
                             !.health = status,
                             !.backendStarted = ok,
                             !.pc = IF ok THEN main_afterBackend(TRUE)
                                   ELSE IF i < CheckHealthMaxRetries THEN "checkHealth"
                                   ELSE main_afterBackend(FALSE)]
       /\ UNCHANGED <<server, client>>

\* startFrontend() and showStatus().
Cli_startFrontend ==
    /\ cli.pc = "startFrontend"
    /\ cli' = [cli EXCEPT !.pc = "done", !.steps = Append(@, "startFrontend")]
    /\ UNCHANGED <<server, client>>

\* ----------------------------------------------------------- specifications
NextStore ==
    \/ Tick
    \/ \E data \in CreateInputs : DataCreate(data)
    \/ \E id \in IdInputs : DataFindById(id)
    \/ \E id \in IdInputs, updates \in UpdateInputs : DataUpdateById(id, updates)
    \/ \E id \in IdInputs : DataDeleteById(id)

NextService ==
    \/ \E data \in CreateInputs : ServiceCreateTask(data)
    \/ \E id \in IdInputs : ServiceGetTaskById(id)
    \/ \E id \in IdInputs, updates \in UpdateInputs : ServiceUpdateTask(id, updates)
    \/ \E id \in IdInputs : ServiceDeleteTask(id)

NextClient ==
    \/ QueryFetch
    \/ QueryResolve
    \/ QueryReject
    \/ \E input \in CreateInputs : CreateMutate(input)
    \/ \E id \in CachedIds, updates \in ClientUpdates : UpdateMutate(id, updates)
    \/ \E id \in CachedIds : DeleteMutate(id)
    \/ MutationSettle
    \/ \E id \in SeedIds : DataDeleteById(id)
    \/ \E id \in SeedIds : DataUpdateById(id, [title |-> Absent, status |-> Given("done")])

Next == NextStore \/ NextService

\* The store and the service above it.
Spec == Init /\ [][Next]_vars

\* The store alone.
SpecStore == Init /\ [][NextStore]_vars

\* The API process over the seeded collection, under any NODE_ENV.
ParamIds == SeedIds \cup {NotAnId, ToHexString(9)}
\* Requests with every kind of body go to the routes that read one; the
\* other requests come without a body or with one that is no JSON.
RequestObjects ==
    {Updates(Absent, Absent), Updates(Absent, Given("done")),
     Updates(Absent, Given("archived"))}
    \cup {Updates(Given(t), Absent) : t \in {EmptyTitle, BlankTitle, PaddedTitle, TooLongTitle}}
RequestBodies(m) ==
    IF m \in {"POST", "PATCH"}
    THEN {NoBody, MalformedJson} \cup {Json(obj) : obj \in RequestObjects}
    ELSE {NoBody, MalformedJson}
Requests ==
    UNION {{Request(m, "tasks", <<>>, b) : b \in RequestBodies(m) \ {Json(o) : o \in
                IF m = "PATCH" THEN RequestObjects ELSE {}}} : m \in Methods}
    \cup UNION {{Request(m, "tasks", <<id>>, b) :
                    id \in ParamIds \cup {StatsSegment},
                    b \in RequestBodies(m) \ {Json(o) : o \in
                        IF m = "POST" THEN RequestObjects ELSE {}}} : m \in Methods}
    \cup {Request(m, "health", rest, NoBody) :
            m \in {"GET", "POST"}, rest \in {<<>>, <<SimpleSegment>>, <<StatsSegment>>}}
    \cup {Request(m, "other", <<>>, b) :
            m \in {"GET", "POST", "OPTIONS"}, b \in {NoBody, MalformedJson}}

\* The requests whose handlers reach the store, which may have no connection.
StoreRequests ==
    {req \in Requests : req.method = "GET" /\ req.body = NoBody
                           /\ req.rest \in {<<>>, <<StatsSegment>>}
                           /\ req.mount \in {"tasks", "health"}}

InitApi ==
    /\ tasks = SeedTasks
    /\ nextId = Cardinality(DOMAIN SeedTasks) + 1
    /\ now = SeedTime
    /\ last = NoCall
    /\ env \in NodeEnvs
    /\ cache = NoData
    /\ fetching = FALSE
    /\ mut = NoMutation
    /\ ui = NoUi
    /\ cli = NoCli

NextApi ==
    \/ \E req \in Requests : ApiRequest(req, TRUE)
    \/ \E req \in StoreRequests : ApiRequest(req, FALSE)
    \/ \E error \in ErrorInputs : ForwardError(error)
    \/ \E body \in BodyObjects : ParseCreate(body)
    \/ \E body \in BodyObjects : ParseUpdate(body)
    \/ \E id \in ParamIds : ParseParams(id)
    \/ \E id \in SeedIds : DataDeleteById(id)

SpecApi == InitApi /\ [][NextApi]_vars

\* The frontend's query cache and mutation hooks over the seeded collection.
SpecClient == InitSeeded /\ [][NextClient]_vars

\* The same, with the event loop's guarantee that a promise which has settled
\* has its callbacks run: a pending mutation settles, and a fetch in flight
\* resolves or rejects.
SpecClientLive ==
    /\ InitSeeded
    /\ [][NextClient]_vars
    /\ WF_vars(MutationSettle)
    /\ WF_vars(QueryResolve \/ QueryReject)

\* The components over the hooks: one TaskItem and the TaskForm, the user
\* typing and clicking, and another client retitling or deleting the task.
EditInputs == {BlankTitle, PaddedTitle}
PaddedWith(title) == <<Run(" ", 1)>> \o title

InitUi ==
    /\ tasks = SeedTasks
    /\ nextId = Cardinality(DOMAIN SeedTasks) + 1
    /\ now = SeedTime
    /\ last = NoCall
    /\ env = NodeEnvUnset
    /\ cache = NoData
    /\ fetching = FALSE
    /\ mut = NoMutation
    /\ ui \in {[NoUi EXCEPT !.id = id] : id \in SeedIds}
    /\ cli = NoCli

NextUi ==
    \/ QueryFetch
    \/ QueryResolve
    \/ QueryReject
    \/ MutationSettle
    \/ TaskList_render
    \/ TaskItem_setIsEditing
    \/ \E title \in EditInputs : TaskItem_setEditTitle(title)
    \/ Rendered /\ TaskItem_setEditTitle(PaddedWith(TaskProp(cache, ui.id).title))
    \/ TaskItem_handleSaveEdit
    \/ TaskItem_handleCancelEdit
    \/ TaskItem_handleToggleStatus
    \/ TaskItem_openDelete
    \/ TaskItem_closeDelete
    \/ TaskItem_handleDelete
    \/ \E title \in {EmptyTitle, PaddedTitle} : TaskForm_setTitle(title)
    \/ TaskForm_handleSubmit
    \/ DataUpdateById(ui.id, [title |-> Given(PaddedTitle), status |-> Absent])
    \/ DataDeleteById(ui.id)

SpecUi == InitUi /\ [][NextUi]_vars

\* A run of the CLI. The health fetch is answered by the health route, with
\* or without a database connection, or not at all.
HealthResponses ==
    {FetchFailed}
    \cup {healthRoutes(Request("GET", "health", <<>>, NoBody), tasks, connected,
                       connected, now).status : connected \in BOOLEAN}

NextCli ==
    \/ \E command \in {"test", "help"}, subcommand \in {"up", "stop"} :
          Cli_main(command, subcommand)
    \/ \E hasDocker, dockerRuns, hasBrew, brewStarts \in BOOLEAN :
          Cli_startMongoDB(hasDocker, dockerRuns, hasBrew, brewStarts)
    \/ \E backendInstalled, frontendInstalled, npmInstalls \in BOOLEAN :
          Cli_setupDependencies(backendInstalled, frontendInstalled, npmInstalls)
    \/ Cli_startBackend
    \/ \E status \in HealthResponses : Cli_checkHealth(status)
    \/ Cli_startFrontend

SpecCli == Init /\ [][NextCli]_vars

\* ===================================================================== claims
RECURSIVE SumCounts(_)
SumCounts(stats) ==
    IF stats = {} THEN 0
    ELSE LET e == CHOOSE x \in stats : TRUE IN e.count + SumCounts(stats \ {e})

\* The ObjectIds whose document was created and has been deleted.
DeletedIds == (1..(nextId - 1)) \ DOMAIN tasks

ValidTitle(t) == StrLen(Trim(t)) >= MinTitleLength /\ StrLen(Trim(t)) <= MaxTitleLength

StatusOnly(updates) ==
    updates.title = Absent /\ updates.status \in {Given("open"), Given("done")}

\* C1: for every title whose trimmed length is between 1 and 200, createTask
\* returns a task with status open, createdAt equal to updatedAt, and the
\* trimmed input as its title.
C1_CreateTaskReturnsOpenTask ==
    (last.op = "createTask" /\ ValidTitle(last.arg.title))
        => /\ last.res.ok
           /\ last.res.val.status = "open"
           /\ last.res.val.createdAt = last.res.val.updatedAt
           /\ last.res.val.title = Trim(last.arg.title)

\* C2: for every title that is empty after trimming, createTask fails with
\* the error 'Title cannot be empty' and the collection is unchanged.
C2_EmptyTitleRejected ==
    [][\A data \in CreateInputs :
          (ServiceCreateTask(data) /\ StrLen(Trim(data.title)) = 0)
              => /\ ~last'.res.ok
                 /\ last'.res.message = "Title cannot be empty"
                 /\ tasks' = tasks]_vars

\* C3: a getTaskById, updateTask or deleteTask on the id of a deleted task
\* fails with the error 'Task not found', and a deleted id is never live
\* again.
C3_DeletedIdIsNotFound ==
    [][/\ (last'.op \in {"getTaskById", "updateTask", "deleteTask"}
              /\ FromHexString(last'.arg.id) \in DeletedIds)
           => (~last'.res.ok /\ last'.res.message = "Task not found")
       /\ DeletedIds \subseteq DeletedIds']_vars

\* C4: in every state the counts getStats returns sum to the total count()
\* returns.
C4_StatsSumToCount == SumCounts(getStats(tasks)) = count(tasks)

\* C4 witness: two tasks are stored, one open and one done.
C4_Witness ==
    /\ count(tasks) = 2
    /\ [status |-> "open", count |-> 1] \in getStats(tasks)
    /\ [status |-> "done", count |-> 1] \in getStats(tasks)

\* C5: updateTask with only a status, on an existing task, succeeds, sets
\* that status and leaves the task's title, id and createdAt unchanged, so
\* that done followed by open ends with the original title and status open.
C5_StatusUpdateKeepsTitle ==
    [][\A id \in IdInputs, updates \in UpdateInputs :
          (ServiceUpdateTask(id, updates) /\ StatusOnly(updates)
              /\ FromHexString(id) \in DOMAIN tasks)
              => /\ last'.res.ok
                 /\ FromHexString(id) \in DOMAIN tasks'
                 /\ tasks'[FromHexString(id)].status = updates.status.v
                 /\ tasks'[FromHexString(id)].title = tasks[FromHexString(id)].title
                 /\ tasks'[FromHexString(id)].createdAt = tasks[FromHexString(id)].createdAt]_vars

C7_OptimisticCreateVisible ==
    (mut.kind = "create" /\ mut.status = "pending")
        => /\ cache.defined
           /\ Len(cache.list) = Len(mut.snapshot.list) + 1
           /\ cache.list[1].title = mut.vars.input.title
           /\ Tail(cache.list) = mut.snapshot.list

\* C8: when a create mutation fails, the cached list after the failure is
\* the list cached when the mutation was issued, and the mutation carries
\* the error.
C8_FailedCreateRestoresCache ==
    [][(mut.kind = "create" /\ mut.status = "pending" /\ mut'.status = "error")
          => (cache' = mut.snapshot /\ mut'.error # "")]_vars

\* C8 witness: a create mutation has failed over a fetched list of three
\* tasks, which is still the cached list.
C8_Witness ==
    /\ mut.kind = "create"
    /\ mut.status = "error"
    /\ mut.error # ""
    /\ mut.snapshot.defined
    /\ Len(mut.snapshot.list) = 3
    /\ cache = mut.snapshot

RemoveId(list, id) == SelectSeq(list, LAMBDA t : t.id # id)

\* C9: issuing a delete removes the task from the cached list at once, and
\* when the call fails the cached list is again the list as it was, the
\* task at its original position with its original fields.
C9_OptimisticDelete ==
    [][/\ (mut'.kind = "delete" /\ mut'.status = "pending" /\ mut.status # "pending")
           => cache'.list = RemoveId(cache.list, mut'.vars.id)
       /\ (mut.kind = "delete" /\ mut.status = "pending" /\ mut'.status = "error")
           => cache' = mut.snapshot]_vars
\* C11: every create, update or delete mutation that is issued is eventually
\* followed by an invalidation of the cached task list by that mutation,
\* whether it resolves with success or with failure.
C11_MutationEventuallyInvalidates ==
    (mut.status = "pending") ~> mut.invalidated
\* C20: CreateTaskSchema, and UpdateTaskSchema when a title is present,
\* accept exactly the titles whose length after trimming is between 1 and 200
\* and yield the trimmed title.
C20_TitleValidatedAfterTrim ==
    (last.op \in {"CreateTaskSchema.parse", "UpdateTaskSchema.parse"}
        /\ last.arg.title # Absent /\ ZodStatus(last.arg.status) = <<>>)
        => /\ last.res.ok <=> ValidTitle(last.arg.title.v)
           /\ last.res.ok =>
                 last.res.data.title =
                    IF last.op = "CreateTaskSchema.parse"
                    THEN Trim(last.arg.title.v) ELSE Given(Trim(last.arg.title.v))
\* The task routes' paths: /api/tasks, and /api/tasks/:id for an id that is
\* not the segment of the stats route.
TasksRoot(req) == req.mount = "tasks" /\ req.rest = <<>>
TaskById(req) == req.mount = "tasks" /\ Len(req.rest) = 1 /\ req.rest # <<StatsSegment>>
HasJson(req) == "json" \in DOMAIN req.body
ValidFields(obj) ==
    /\ obj.title # Absent => ValidTitle(obj.title.v)
    /\ ZodStatus(obj.status) = <<>>

\* C12: POST /tasks with a valid body answers 201 with {success: true,
\* data: created task} after calling createTask with the validated body;
\* with a missing, empty or too-long title it answers 400 with success:
\* false and does not call createTask.
C12_PostTasks ==
    (last.op = "request" /\ last.arg.method = "POST" /\ TasksRoot(last.arg)
        /\ HasJson(last.arg) /\ last.db)
        => LET title == last.arg.body.json.title IN
           /\ (title # Absent /\ StrLen(title.v) \in MinTitleLength..MaxTitleLength
                  /\ ValidTitle(title.v))
                => /\ last.res.status = 201
                   /\ last.res.body.success
                   /\ "data" \in DOMAIN last.res.body
                   /\ last.res.calls =
                         <<ServiceCall("createTask", [title |-> Trim(title.v)])>>
           /\ (title = Absent \/ StrLen(title.v) = 0 \/ StrLen(Trim(title.v)) > MaxTitleLength)
                => /\ last.res.status = 400
                   /\ ~last.res.body.success
                   /\ last.res.calls = <<>>

\* C13: PATCH /tasks/:id answers 200 with {success: true, data: updated
\* task} for an existing task and valid fields, 400 with success: false for
\* a malformed id or an invalid field value, and 404 for a well-formed id
\* without a task.
C13_PatchTask ==
    (last.op = "request" /\ last.arg.method = "PATCH" /\ TaskById(last.arg)
        /\ HasJson(last.arg) /\ last.db)
        => LET id == last.arg.rest[1]
               obj == last.arg.body.json
           IN  IF ~ObjectIdIsValid(id) \/ ~ValidFields(obj)
               THEN last.res.status = 400 /\ ~last.res.body.success
               ELSE IF FromHexString(id) \in DOMAIN tasks
               THEN /\ last.res.status = 200
                    /\ last.res.body.success
                    /\ "data" \in DOMAIN last.res.body
                    /\ last.res.body.data.id = id
               ELSE last.res.status = 404 /\ ~last.res.body.success

\* C14: DELETE /tasks/:id answers 204 with no body when the task existed,
\* and the task is deleted; 400 for a malformed id; 404 for a well-formed id
\* without a task.
C14_DeleteTask ==
    [][(last'.op = "request" /\ last'.arg.method = "DELETE" /\ TaskById(last'.arg)
          /\ last'.arg.body # MalformedJson /\ last'.db)
          => LET id == last'.arg.rest[1] IN
             IF ~ObjectIdIsValid(id) THEN last'.res.status = 400
             ELSE IF FromHexString(id) \in DOMAIN tasks
             THEN /\ last'.res.status = 204
                  /\ last'.res.body = NoBody
                  /\ FromHexString(id) \notin DOMAIN tasks'
             ELSE last'.res.status = 404]_vars

\* C15: GET /tasks/:id answers 200 with the task for an existing id, 400
\* with success: false for a malformed id, and 404 with success: false for a
\* well-formed id with no live record, a deleted one included.
C15_GetTask ==
    (last.op = "request" /\ last.arg.method = "GET" /\ TaskById(last.arg)
        /\ last.arg.body # MalformedJson /\ last.db)
        => LET id == last.arg.rest[1] IN
           IF ~ObjectIdIsValid(id)
           THEN last.res.status = 400 /\ ~last.res.body.success
           ELSE IF FromHexString(id) \in DOMAIN tasks
           THEN /\ last.res.status = 200
                /\ last.res.body.success
                /\ last.res.body.data = formatTaskResponse(tasks[FromHexString(id)])
           ELSE last.res.status = 404 /\ ~last.res.body.success

\* The errors of the input and validation class, and the not-found error.
InputError(error) ==
    \/ error.name \in {"ZodError", "ValidationError", "CastError"}
    \/ error.name = "MongoServerError" /\ error.code = 11000
    \/ error.message \in {"Invalid task ID format", "Title cannot be empty"}
NotFoundError(error) == error.message = "Task not found"

\* C16: every error forwarded to the global error handler is answered with
\* the status of its kind: 400 for input and validation errors (the store's
\* 'Invalid task ID format' among them), 404 with error 'Task not found' for
\* the not-found error, 500 for anything else.
C16_StatusByErrorKind ==
    (last.op = "request" /\ last.res.via = "errorHandler")
        => IF InputError(last.res.error) THEN last.res.status = 400
           ELSE IF NotFoundError(last.res.error)
           THEN last.res.status = 404 /\ last.res.body.error = "Task not found"
           ELSE last.res.status = 500

\* C17: an error of no recognized kind answers 500, and outside development
\* mode (an unset NODE_ENV included) the response carries the generic
\* message 'Internal server error' and not the error's own message.
C17_DetailOnlyInDevelopment ==
    (last.op = "request" /\ last.res.via = "errorHandler"
        /\ ~InputError(last.res.error) /\ ~NotFoundError(last.res.error))
        => /\ last.res.status = 500
           /\ env # "development"
                => /\ last.res.body.error = "Internal server error"
                   /\ \A f \in DOMAIN last.res.body :
                         last.res.body[f] # last.res.error.message

\* C18: a ZodError forwarded to the error handler is answered with 400 and
\* {success: false, error: 'Validation failed', details: the issues}.
C18_ZodErrorIs400 ==
    (last.op = "request" /\ last.res.via = "errorHandler"
        /\ last.res.error.name = "ZodError")
        => /\ last.res.status = 400
           /\ last.res.body = [success |-> FALSE, error |-> "Validation failed",
                                details |-> last.res.error.issues]

\* Whether a route of a mounted router matches the request's method and path.
RouteMatches(req) ==
    \/ req.mount = "tasks" /\ req.rest = <<>> /\ req.method \in {"GET", "POST"}
    \/ req.mount = "tasks" /\ Len(req.rest) = 1
          /\ req.method \in {"GET", "PATCH", "DELETE"}
    \/ req.mount = "health" /\ req.method = "GET"
          /\ req.rest \in {<<>>, <<SimpleSegment>>}

\* C19: a request whose method and path match no mounted route is answered
\* 404 with {success: false, error: 'Endpoint not found'} and does not reach
\* the global error handler.
C19_UnmatchedIs404 ==
    (last.op = "request" /\ last.arg.mount # "test-error" /\ ~RouteMatches(last.arg))
        => /\ last.res.status = 404
           /\ last.res.body = [success |-> FALSE, error |-> "Endpoint not found"]
           /\ last.res.via # "errorHandler"
\* C21: UpdateTaskSchema rejects a body with neither title nor status,
\* accepts a body with only a (valid) title or only a status of the enum, and
\* rejects a status other than 'open' and 'done'.
C21_UpdateNeedsAField ==
    (last.op = "UpdateTaskSchema.parse")
        => /\ (last.arg.title = Absent /\ last.arg.status = Absent) => ~last.res.ok
           /\ (last.arg.title # Absent /\ last.arg.status = Absent
                  /\ StrLen(last.arg.title.v) \in MinTitleLength..MaxTitleLength
                  /\ ValidTitle(last.arg.title.v)) => last.res.ok
           /\ (last.arg.title = Absent /\ last.arg.status # Absent)
                => (last.res.ok <=> last.arg.status.v \in Statuses)
\* C22: GET /tasks, the store being connected, answers 200 with success:
\* true and exactly the live tasks, newest createdAt first; for an empty
\* collection the answer is the empty list.
C22_ListNewestFirst ==
    (last.op = "request" /\ last.arg.method = "GET" /\ TasksRoot(last.arg)
        /\ last.arg.body = NoBody /\ last.db)
        => /\ last.res.status = 200
           /\ last.res.body.success
           /\ last.res.via = "route"
           /\ Len(last.res.body.data) = Cardinality(DOMAIN tasks)
           /\ {last.res.body.data[k] : k \in 1..Len(last.res.body.data)}
                 = {formatTaskResponse(tasks[i]) : i \in DOMAIN tasks}
           /\ \A k \in 1..(Len(last.res.body.data) - 1) :
                 last.res.body.data[k].createdAt.iso
                    >= last.res.body.data[k + 1].createdAt.iso

\* C22 witness: GET /tasks answered the three seeded tasks, the newest first.
C22_Witness ==
    /\ last.op = "request" /\ last.arg.method = "GET" /\ TasksRoot(last.arg)
    /\ last.arg.body = NoBody /\ last.db
    /\ last.res.status = 200
    /\ Len(last.res.body.data) = 3
    /\ last.res.body.data[1].createdAt.iso > last.res.body.data[3].createdAt.iso
\* C23: findById, updateById and deleteById, given a malformed id, fail with
\* the invalid-id error, which no call with a well-formed id results in
\* (neither null nor another error), and leave the collection unchanged.
C23_MalformedIdIsInvalidId ==
    [][\A id \in IdInputs :
          IF ~ObjectIdIsValid(id)
          THEN /\ ~validateObjectId(id).ok
               /\ findByIdResult(tasks, id) = InvalidId
               /\ \A updates \in UpdateInputs :
                     updateByIdResult(tasks, id, updates, now) = InvalidId
               /\ InvalidId # Ok(NoTask)
               /\ (\/ DataFindById(id)
                   \/ DataDeleteById(id)
                   \/ \E updates \in UpdateInputs : DataUpdateById(id, updates))
                     => tasks' = tasks
          ELSE /\ findByIdResult(tasks, id) # InvalidId
               /\ \A updates \in UpdateInputs :
                     updateByIdResult(tasks, id, updates, now) # InvalidId]_vars

\* C23 witness: with a task stored, the malformed id is answered with the
\* invalid-id error while a well-formed id without a task is answered null.
C23_Witness ==
    /\ 1 \in DOMAIN tasks
    /\ 2 \notin DOMAIN tasks
    /\ findByIdResult(tasks, NotAnId) = InvalidId
    /\ findByIdResult(tasks, ToHexString(2)) = Ok(NoTask)
    /\ updateByIdResult(tasks, NotAnId, Updates(Absent, Given("done")), now) = InvalidId

\* C24: in every state the store's create and update operations reach, no
\* persisted task has an empty or whitespace-only title, and every persisted
\* status is 'open' or 'done'.
C24_PersistedTitleAndStatus ==
    \A k \in DOMAIN tasks :
        /\ StrLen(Trim(tasks[k].title)) >= MinTitleLength
        /\ tasks[k].status \in Statuses

\* C24 witness: a task has been updated after its creation and carries a
\* title and the status done.
C24_Witness ==
    \E k \in DOMAIN tasks :
        /\ tasks[k].updatedAt > tasks[k].createdAt
        /\ tasks[k].status = "done"
        /\ tasks[k].title = Trim(PaddedTitle)
\* C25: the client never retries a mutation by itself. An HTTP request is
\* sent only by a call of the API binding, and each mutation calls it at
\* most once; after a failure nothing more happens to the mutation until the
\* user issues a new one.
C25_NoAutomaticRetry ==
    [][/\ mut'.attempts <= 1
       /\ (mut.status = "error" /\ mut' # mut)
            => (mut'.status = "pending" /\ mut'.attempts = 1)]_vars

\* C25 witness: a delete mutation has failed after one call of the binding.
C25_Witness ==
    /\ mut.kind = "delete"
    /\ mut.status = "error"
    /\ mut.attempts = 1
\* C26: the components never write the cached task list. Whenever the list
\* in the cache changes, the step is a fetch of the query resolving, or a
\* mutation callback of a hook (onMutate as the mutation starts, onError as
\* it fails); a step of a component leaves the list as the hooks make it.
C26_OnlyHooksWriteCache ==
    [][cache' # cache =>
          \/ fetching /\ ~fetching' /\ mut' = mut /\ ui' = ui
          \/ /\ mut' # mut
             /\ mut'.status = "pending"
             /\ cache' = onMutate(mut'.kind, cache, mut'.vars)
          \/ /\ mut.status = "pending"
             /\ mut'.status = "error"
             /\ cache' = onError(mut, cache)]_vars

\* C26 witness: the item's delete handler has run to its end over a loaded
\* list (its mutation failed, the modal is closed, the notification shown).
C26_Witness ==
    /\ cache.defined
    /\ Rendered
    /\ mut.kind = "delete"
    /\ mut.status = "error"
    /\ ~ui.deleteOpened
    /\ ui.notice = DeleteNotImplementedNotice
\* C29: TaskItem's save-edit. With a trimmed edit title that is empty it
\* dispatches nothing, stays in edit mode and shows the error; with one equal
\* to the task's title it dispatches nothing and leaves edit mode; otherwise
\* it dispatches one update of the task that carries the trimmed title. If
\* that update fails, the edit field is reset to the task's title and edit
\* mode is left.
C29_SaveEdit ==
    [][LET task == TaskProp(cache, ui.id)
           trimmed == Trim(ui.editTitle)
       IN /\ TaskItem_handleSaveEdit =>
                IF trimmed = EmptyTitle
                THEN mut' = mut /\ ui'.isEditing /\ ui'.notice = TitleEmptyNotice
                ELSE IF trimmed = task.title
                THEN mut' = mut /\ ~ui'.isEditing
                ELSE /\ mut'.status = "pending"
                     /\ mut'.kind = "update"
                     /\ mut'.attempts = 1
                     /\ mut'.vars = [id |-> ui.id,
                                     updates |-> [title |-> Given(trimmed),
                                                  status |-> Absent]]
          /\ (MutationSettle /\ ui.awaiting = "saveEdit" /\ mut'.status = "error") =>
                (~ui'.isEditing /\ ui'.editTitle = task.title)]_vars

\* C29 witness: a save of "  Buy milk  " dispatched the update with the
\* title "Buy milk", the update failed, and the item is out of edit mode
\* with the task's title in its edit field.
C29_Witness ==
    /\ Rendered
    /\ mut.kind = "update"
    /\ mut.status = "error"
    /\ mut.vars.updates.title = Given(Trim(PaddedTitle))
    /\ TaskProp(cache, ui.id).title # Trim(PaddedTitle)
    /\ ~ui.isEditing
    /\ ui.editTitle = TaskProp(cache, ui.id).title
    /\ ui.notice = UpdateNotImplementedNotice
\* C27: GET /tasks/stats is handled by the statistics handler, never by the
\* handler of /:id: whenever such a request reaches the tasks router, the
\* one service call made for it is getTaskStats, the answer is not the one
\* of GET /:id, and with the store connected it is 200 with the statistics.
C27_StatsBeforeId ==
    (/\ last.op = "request"
     /\ last.arg.method = "GET" /\ last.arg.mount = "tasks"
     /\ last.arg.rest = <<StatsSegment>>
     /\ last.arg.body # MalformedJson)
    => /\ last.res.calls = <<ServiceCall("getTaskStats", NoTask)>>
       /\ last.res.body # router_getById(last.arg).body
       /\ last.res.status # 501
       /\ last.db => /\ last.res.status = 200
                     /\ last.res.via = "route"
                     /\ last.res.body = [success |-> TRUE, data |-> getStats(tasks)]

\* C27 witness: GET /tasks/stats was answered by the statistics handler
\* while GET /tasks/<id> would be answered by the handler of /:id.
C27_Witness ==
    /\ last.op = "request"
    /\ last.arg = Request("GET", "tasks", <<StatsSegment>>, NoBody)
    /\ last.db
    /\ last.res.status = 200
    /\ last.res.calls = <<ServiceCall("getTaskStats", NoTask)>>
    /\ tasks # SeedTasks

\* C28: GET /health answers 200 with success: true exactly when mongoose is
\* connected, and 503 with success: false otherwise; whether the count of
\* tasks succeeds makes no difference to that, and tasksCount is 0 or 1.
C28_HealthFollowsConnection ==
    (/\ last.op = "request"
     /\ last.arg.method = "GET" /\ last.arg.mount = "health"
     /\ last.arg.rest = <<>>
     /\ last.arg.body # MalformedJson)
    => /\ last.res.via = "route"
       /\ last.res.status = (IF last.db THEN 200 ELSE 503)
       /\ last.res.body.success = last.db
       /\ last.res.body.data.status = (IF last.db THEN "healthy" ELSE "unhealthy")
       /\ last.res.body.data.info.tasksCount \in {0, 1}

\* C28 witness: with mongoose connected and tasks in the collection the
\* count failed; the answer is 200, healthy, with tasksCount 0.
C28_Witness ==
    /\ last.op = "request"
    /\ last.arg = Request("GET", "health", <<>>, NoBody)
    /\ last.db
    /\ ~last.counted
    /\ DOMAIN tasks # {}
    /\ last.res.status = 200
    /\ last.res.body.data.info.tasksCount = 0
\* C30: `test up` runs its steps in the order MongoDB, dependencies, backend,
\* frontend. A MongoDB that could not be started does not stop the run, the
\* readiness poll makes at most 30 attempts, and the frontend is started
\* only after a health check that succeeded.
UpOrder == <<"startMongoDB", "setupDependencies", "startBackend", "startFrontend">>
C30_UpSequence ==
    /\ Len(cli.steps) <= Len(UpOrder)
    /\ cli.steps = SubSeq(UpOrder, 1, Len(cli.steps))
    /\ cli.steps = <<"startMongoDB">> => cli.pc = "setupDependencies"
    /\ cli.attempts <= CheckHealthMaxRetries
    /\ (cli.pc = "checkHealth" => cli.attempts < CheckHealthMaxRetries)
    /\ (cli.pc = "startFrontend" \/ Len(cli.steps) = Len(UpOrder))
          => (cli.backendStarted /\ cli.health = 200)

\* C30 witness: MongoDB could not be started, the backend answered the
\* thirtieth health check, and the frontend was started.
C30_Witness ==
    /\ cli.pc = "done"
    /\ ~cli.mongoStarted
    /\ cli.attempts = CheckHealthMaxRetries
    /\ cli.backendStarted
    /\ cli.steps = UpOrder
====
